---- MODULE Spec2Model ----
(***************************************************************************)
(* Model of the Connect Four back end: the HTTP game endpoints of the      *)
(* server (game creation, move, end), the business and database layers     *)
(* they call, and the WebSocket connection / room / presence manager.      *)
(***************************************************************************)
EXTENDS Integers, Sequences, FiniteSets, TLC

\* ------------------------------------------------------------------ bounds
MaxConns   == 2      \* WebSocket connections opened in one run
MaxGames   == 1      \* rows of the game table
MaxPending == 1      \* move requests suspended at their storage call
MaxStored  == 6      \* drops replayed to build a stored board (SpecStored)
MaxRacing  == 2      \* move requests in flight together (SpecRace)
MaxSuspended  == 1   \* WebSocket handlers suspended at their storage call
MaxChallenges == 1   \* rows of the challenge table
MaxSessions   == 2   \* rows of the session table
MaxDerived    == 2   \* token derivations kept side by side (SpecToken)
DigestLen     == 2   \* characters of a digest (64 in the program)

\* --------------------------------------------------------- program constants
ROWS == 6
COLS == 7
\* digest('hex'): the characters of a digest are the 16 hex digits
HEX == 16

\* ------------------------------------------------------------- JS values
\* A JavaScript value that carries an id: a number, a string of digits,
\* null (absent URL parameter) or undefined (absent JSON field).
Num(n) == <<"num", n>>
Str(n) == <<"str", n>>
Null == <<"null", 0>>
Undefined == <<"undef", 0>>

\* JavaScript truthiness of such a value (0, null and undefined are falsy)
Truthy(v) == v \notin {Null, Undefined, Num(0)}

\* MySQL stores an id bound to an INT column as its number, whether the
\* driver was given a number or a numeric string, and returns a number.
DbInt(v) == Num(v[2])

UserIds == {1, 2}
UserParams == {Str(u) : u \in UserIds} \cup {Null}
GameParams == {"", "g1", "lobby"}
RoomNames == {"lobby", "g1"}
PlayerInputs == {Num(u) : u \in UserIds} \cup {Str(1), Num(3)}
ColInputs == {-1, 0, 3, 7}
CreateInputs == {<<Num(1), Num(2)>>, <<Num(2), Num(1)>>, <<Str(1), Num(2)>>}
GameIdInputs == 1..(MaxGames + 1)
TargetInputs == {Str(u) : u \in UserIds} \cup {Num(1), Str(9), Undefined}

\* ------------------------------------------------------------------ board
EmptyRow == [c \in 1..COLS |-> "null"]

InitialBoard == [r \in 1..ROWS |-> EmptyRow]

JSONstringify(board) == <<"json", board>>
JSONparse(text) == text[2]

\* board[row][col] with the code's 0-based indices
Cell(board, row, col) == board[row + 1][col + 1]

\* The scan of the move handler: the largest row index whose cell in col is
\* falsy, or -1 when the loop ends with placed = false.
RECURSIVE ScanFrom(_, _, _)
ScanFrom(board, col, row) ==
    IF row < 0 THEN -1
    ELSE IF Cell(board, row, col) = "null" THEN row
    ELSE ScanFrom(board, col, row - 1)

\* faulty variant: a scan that falls back to the top row when no cell is empty
DropRowClobber(board, col) ==
    IF ScanFrom(board, col, Len(board) - 1) = -1 THEN 0
    ELSE ScanFrom(board, col, Len(board) - 1)

\* faulty variant: the scan takes the top cell of the column when it is empty
DropRowTop(board, col) == IF Cell(board, 0, col) = "null" THEN 0 ELSE -1

DropRow(board, col) == ScanFrom(board, col, Len(board) - 1)

SetCell(board, row, col, colour) ==
    [board EXCEPT ![row + 1][col + 1] = colour]

Colour(game, playerId) ==
    IF playerId = game.player1_id THEN "red" ELSE "yellow"

\* faulty variant: the turn stays with the player who moved
NextTurnStays(game, playerId) == playerId

\* line 211: the turn passes to the other player
NextTurn(game, playerId) ==
    IF playerId = game.player1_id THEN game.player2_id ELSE game.player1_id

\* ------------------------------------------------------------------ state
VARIABLES
    games,        \* the game table: row g is the game with game_id = g
    pending,      \* move requests suspended at `await logic.getGameWithId`
    conns,        \* every WebSocket handed to wss.on('connection'), by handle
    userSockets,  \* Map userId -> WebSocket handle
    rooms,        \* Map room name -> Set of WebSocket handles
    res,          \* what the latest step answered to its HTTP request
    out,          \* what the latest step passed to ws.send: {<<handle, message>>}
    scen,         \* progress of the move script of section 8 on game 1
    suspended,    \* 'message' handlers suspended at an `await logic....`
    challenges,   \* the challenge table: row c has challenge_id = c
    sessions,     \* the session table: row s has session_id = s
    derived       \* the calls of createSessionToken made so far

vars == <<games, pending, conns, userSockets, rooms, res, out, scen,
          suspended, challenges, sessions, derived>>

\* what the game routes leave alone
wsTasks == <<suspended, challenges>>

\* what the game routes and the WebSocket server leave alone
auth == <<sessions, derived>>

\* op: the handler that ran; status and body: its HTTP answer or its log
\* line; id: the game or socket it was about; arg: the id value it was given
Res(op, status, body, id, arg) ==
    [op |-> op, status |-> status, body |-> body, id |-> id, arg |-> arg]

NoRes == Res("none", 0, "", 0, Undefined)

\* the outcome of a handler whose promise rejects: no response is written
Threw == "unhandled rejection"

ErrorMsg(text) == <<"error", text>>

\* ------------------------------------------------------------- Map helpers
MapHas(m, k) == k \in DOMAIN m
MapSet(m, k, v) == [x \in (DOMAIN m) \cup {k} |-> IF x = k THEN v ELSE m[x]]
MapDelete(m, k) == [x \in (DOMAIN m) \ {k} |-> m[x]]
EmptyMap == [x \in {} |-> 0]

\* ----------------------------------------------------------- storage layer
\* db.getGameWithId: result[0] of SELECT ... WHERE game_id = ?  (undefined
\* when no row matches)
HasGame(gameId) == gameId \in 1..Len(games)

\* faulty variant: the insert with current_turn bound to the opponent
DbCreateGameRowOpponentFirst(userId, opponentId, initialBoard) ==
    [player1_id   |-> DbInt(userId),
     player2_id   |-> DbInt(opponentId),
     current_turn |-> DbInt(opponentId),
     game_state   |-> initialBoard,
     winner_id    |-> Null]

\* db.createGame: INSERT (player1_id, player2_id, current_turn, game_state)
\* VALUES (userId, opponentId, userId, initialBoard); winner_id stays NULL
DbCreateGameRow(userId, opponentId, initialBoard) ==
    [player1_id   |-> DbInt(userId),
     player2_id   |-> DbInt(opponentId),
     current_turn |-> DbInt(userId),
     game_state   |-> initialBoard,
     winner_id    |-> Null]

\* logic.createGame: the row it has the database insert
CreateGameRow(userId, opponentId) ==
    DbCreateGameRow(userId, opponentId, JSONstringify(InitialBoard))

\* db.updateGameState is declared without parameters, so evaluating the
\* arguments of pool.query reads the undeclared name `board` and throws a
\* ReferenceError before any query is issued: the table is left as it is.
DbUpdateGameState(table, board, nextTurn, gameId) == table

\* logic.updateGameState: returns the promise of DB.updateGameState, so the
\* caller's await rethrows its rejection.  threw = TRUE: the call rejected.
LogicUpdateGameState(table, board, nextTurn, gameId) ==
    [threw |-> TRUE, table |-> DbUpdateGameState(table, board, nextTurn, gameId)]

\* --------------------------------------------- POST /game/:gameId/move
\* line 183: the column check made before anything is read
InvalidColumn(col) == col < 0 \/ col >= COLS

\* faulty variant: the turn check with loose inequality (!=), under which the string
\* "1" equals the number 1
NotYourTurnLoose(game, playerId) == game.current_turn[2] # playerId[2]

\* line 192: the turn check
NotYourTurn(game, playerId) == game.current_turn # playerId

Answer(status, body, table) == [status |-> status, body |-> body, table |-> table]

\* lines 187-223: what the handler does once getGameWithId has resolved, as
\* the answer it gives and the game table it leaves
MoveHandle(table, gameId, playerId, col) ==
    IF ~(gameId \in 1..Len(table)) THEN Answer(404, "Game not found", table)
    ELSE LET game == table[gameId] IN
      IF NotYourTurn(game, playerId) THEN Answer(400, "Not your turn", table)
      ELSE LET board == JSONparse(game.game_state)
               row   == DropRow(board, col)
           IN IF row = -1 THEN Answer(400, "Column is full", table)
              ELSE LET marked == SetCell(board, row, col, Colour(game, playerId))
                       upd == LogicUpdateGameState(table, marked,
                                                   NextTurn(game, playerId), gameId)
                   IN \* the await rethrows; had it resolved, line 213 reads
                      \* `row`, which is scoped to the for statement, and
                      \* throws as well, before any notification or response
                      Answer(0, Threw, upd.table)

\* The script of the scenario: user 1 and user 2 each drop in column 3, then
\* user 1 drops six times in column 0.
Script ==
    <<  <<Num(1), 3>>, <<Num(2), 3>>,
        <<Num(1), 0>>, <<Num(1), 0>>, <<Num(1), 0>>,
        <<Num(1), 0>>, <<Num(1), 0>>, <<Num(1), 0>> >>

\* History of the move requests completed on game 1 (created by user 1
\* against user 2): n counts the requests that followed Script so far, body
\* is the answer to the latest of them, ok turns FALSE at the first request
\* on game 1 that leaves the script.
ScenAfter(s, table, gameId, playerId, col, body, alone) ==
    IF gameId # 1 \/ Len(table) < 1 THEN s
    ELSE IF /\ s.ok
            /\ alone
            /\ s.n < Len(Script)
            /\ table[1].player1_id = Num(1)
            /\ table[1].player2_id = Num(2)
            /\ <<playerId, col>> = Script[s.n + 1]
         THEN [n |-> s.n + 1, ok |-> TRUE, body |-> body]
         ELSE [s EXCEPT !.ok = FALSE]

\* lines 179-185: the request arrives; a bad column is answered at once,
\* otherwise the handler suspends at `await logic.getGameWithId(gameId)`
MoveRequest(gameId, playerId, col) ==
    /\ IF InvalidColumn(col)
       THEN /\ res' = Res("move", 400, "Invalid column", gameId, playerId)
            /\ scen' = ScenAfter(scen, games, gameId, playerId, col,
                                 "Invalid column", pending = {})
            /\ UNCHANGED pending
       ELSE /\ Cardinality(pending) < MaxPending
            /\ [gameId |-> gameId, playerId |-> playerId, col |-> col] \notin pending
            /\ pending' = pending \cup
                   {[gameId |-> gameId, playerId |-> playerId, col |-> col]}
            /\ res' = NoRes
            /\ UNCHANGED scen
    /\ out' = {}
    /\ UNCHANGED <<games, conns, userSockets, rooms>>
    /\ UNCHANGED <<wsTasks, auth>>

\* lines 187-223: the storage read resolves and the handler runs on
MoveResume(r) ==
    /\ r \in pending
    /\ LET a == MoveHandle(games, r.gameId, r.playerId, r.col) IN
        /\ games' = a.table
        /\ res' = Res("move", a.status, a.body, r.gameId, r.playerId)
        /\ scen' = ScenAfter(scen, games, r.gameId, r.playerId, r.col,
                             a.body, pending = {r})
    /\ pending' = pending \ {r}
    /\ out' = {}
    /\ UNCHANGED <<conns, userSockets, rooms>>
    /\ UNCHANGED <<wsTasks, auth>>

\* --------------------------------------------------- POST /game/create
\* lines 139-151 with logic.createGame and db.createGame: insert the row and
\* answer 200 with insertId
CreateGame(userId, opponentId) ==
    /\ Len(games) < MaxGames
    /\ games' = Append(games, CreateGameRow(userId, opponentId))
    /\ res' = Res("create", 200, "", Len(games) + 1, userId)
    /\ out' = {}
    /\ UNCHANGED <<pending, conns, userSockets, rooms, scen>>
    /\ UNCHANGED <<wsTasks, auth>>

\* ------------------------------------------------ POST /game/:gameId/end
\* lines 225-239: `pool` is not defined in the server file, the
\* ReferenceError is caught and answered 500; no row is written
EndGame(gameId, winnerId) ==
    /\ res' = Res("end", 500, "Error ending game", gameId, Undefined)
    /\ out' = {}
    /\ UNCHANGED <<games, pending, conns, userSockets, rooms, scen>>
    /\ UNCHANGED <<wsTasks, auth>>

\* ------------------------------------------------------ WebSocket server
OPEN == "OPEN"
CLOSING == "CLOSING"
CLOSED == "CLOSED"

Conn(userId, readyState, handlers) ==
    [userId |-> userId, readyState |-> readyState, handlers |-> handlers]

Handles == 1..Len(conns)

\* a socket whose 'message' handler can run: it was given handlers (it
\* carried a userId) and is open
Listening(ws) ==
    /\ ws \in Handles
    /\ conns[ws].handlers
    /\ conns[ws].readyState = OPEN

\* rooms.get(room).add(ws), creating the room first where the code does
RoomAdd(rs, room, ws) ==
    MapSet(rs, room, (IF MapHas(rs, room) THEN rs[room] ELSE {}) \cup {ws})

\* rooms.get(room).delete(ws)
RoomRemove(rs, room, ws) == [rs EXCEPT ![room] = @ \ {ws}]

\* lines 269-286: the initial room of a connection that carries a userId
InitialRooms(rs, gameId, ws) ==
    IF gameId # ""
    THEN LET added == RoomAdd(rs, gameId, ws) IN
         IF MapHas(added, "lobby") /\ ws \in added["lobby"]
         THEN RoomRemove(added, "lobby", ws)
         ELSE added
    ELSE RoomAdd(rs, "lobby", ws)

\* faulty variant: a userId that is registered keeps its first socket
RegisterFirstWins(registry, userId, ws) ==
    IF MapHas(registry, userId) THEN registry ELSE MapSet(registry, userId, ws)

\* line 266: userSockets.set(userId, ws)
Register(registry, userId, ws) == MapSet(registry, userId, ws)

\* faulty variant: a connection without userId is left open with handlers
RejectedListening(userId) == Conn(userId, OPEN, TRUE)

\* lines 287-291: ws.close() and return, before any handler is attached
Rejected(userId) == Conn(userId, CLOSING, FALSE)

\* lines 254-291: wss.on('connection')
Connect(userId, gameId) ==
    /\ Len(conns) < MaxConns
    /\ LET ws == Len(conns) + 1 IN
       IF Truthy(userId)
       THEN /\ conns' = Append(conns, Conn(userId, OPEN, TRUE))
            /\ userSockets' = Register(userSockets, userId, ws)
            /\ rooms' = InitialRooms(rooms, gameId, ws)
       ELSE /\ conns' = Append(conns, Rejected(userId))
            /\ UNCHANGED <<userSockets, rooms>>
    /\ res' = NoRes
    /\ out' = {}
    /\ UNCHANGED <<games, pending, scen>>
    /\ UNCHANGED <<wsTasks, auth>>

\* lines 300-306: case "join"
WsJoin(ws, room) ==
    /\ Listening(ws)
    /\ rooms' = RoomAdd(rooms, room, ws)
    /\ res' = NoRes
    /\ out' = {}
    /\ UNCHANGED <<games, pending, conns, userSockets, scen>>
    /\ UNCHANGED <<wsTasks, auth>>

\* lines 308-313: case "leave"
LeaveRooms(rs, room, ws) ==
    IF MapHas(rs, room) THEN RoomRemove(rs, room, ws) ELSE rs

WsLeave(ws, room) ==
    /\ Listening(ws)
    /\ rooms' = LeaveRooms(rooms, room, ws)
    /\ res' = NoRes
    /\ out' = {}
    /\ UNCHANGED <<games, pending, conns, userSockets, scen>>
    /\ UNCHANGED <<wsTasks, auth>>

\* faulty variant: the broadcast without the readyState test of line 319
BroadcastSendsAll(rs, room, ws) ==
    IF MapHas(rs, room)
    THEN {<<client, <<"message", room>> >> : client \in rs[room]}
    ELSE {<<ws, ErrorMsg("Room does not exist")>>}

\* lines 315-326: case "message"
BroadcastSends(rs, room, ws) ==
    IF MapHas(rs, room)
    THEN {<<client, <<"message", room>> >> :
              client \in {m \in rs[room] : conns[m].readyState = OPEN}}
    ELSE {<<ws, ErrorMsg("Room does not exist")>>}

WsMessage(ws, room) ==
    /\ Listening(ws)
    /\ out' = BroadcastSends(rooms, room, ws)
    /\ res' = NoRes
    /\ UNCHANGED <<games, pending, conns, userSockets, rooms, scen>>
    /\ UNCHANGED <<wsTasks, auth>>

\* lines 328-343: case "sendChallenge"
ChallengeTargetKnown(registry, targetUserId) ==
    Truthy(targetUserId) /\ MapHas(registry, targetUserId)

\* faulty variant: sendChallenge without its else branch
ChallengeSendsSilent(registry, ws, userId, targetUserId) ==
    IF ChallengeTargetKnown(registry, targetUserId)
    THEN {<<registry[targetUserId], <<"challenge", userId>> >>}
    ELSE {}

\* faulty variant: the sender named in the challenge is read from the message
ChallengeSendsAsTold(registry, ws, userId, targetUserId) ==
    IF ChallengeTargetKnown(registry, targetUserId)
    THEN {<<registry[targetUserId], <<"challenge", targetUserId>> >>}
    ELSE {<<ws, ErrorMsg("Target user is not connected")>>}

ChallengeSends(registry, ws, userId, targetUserId) ==
    IF ChallengeTargetKnown(registry, targetUserId)
    THEN {<<registry[targetUserId], <<"challenge", userId>> >>}
    ELSE {<<ws, ErrorMsg("Target user is not connected")>>}

WsSendChallenge(ws, targetUserId) ==
    /\ Listening(ws)
    /\ out' = ChallengeSends(userSockets, ws, conns[ws].userId, targetUserId)
    /\ res' = Res("sendChallenge", 0, "", ws, targetUserId)
    /\ UNCHANGED <<games, pending, conns, userSockets, rooms, scen>>
    /\ UNCHANGED <<wsTasks, auth>>

\* the peer starts closing, or the transport fails: readyState leaves OPEN
\* some time before the 'close' event is emitted
BeginClose(ws) ==
    /\ ws \in Handles
    /\ conns[ws].readyState = OPEN
    /\ conns' = [conns EXCEPT ![ws].readyState = CLOSING]
    /\ res' = NoRes
    /\ out' = {}
    /\ UNCHANGED <<games, pending, userSockets, rooms, scen>>
    /\ UNCHANGED <<wsTasks, auth>>

\* faulty variant: the close loop without the `room !== "lobby"` test
CloseRoomsAnyEmpty(rs, ws) ==
    LET dropped == {room \in DOMAIN rs : ws \in rs[room] /\ rs[room] \ {ws} = {}}
    IN [room \in (DOMAIN rs) \ dropped |-> rs[room] \ {ws}]

\* lines 476-485: the loop of the close handler over rooms.entries()
CloseRooms(rs, ws) ==
    LET dropped == {room \in DOMAIN rs :
                       /\ ws \in rs[room]
                       /\ room # "lobby"
                       /\ rs[room] \ {ws} = {}}
    IN [room \in (DOMAIN rs) \ dropped |-> rs[room] \ {ws}]

\* faulty variant: a close handler that leaves the registry alone
CloseRegistryKeep(registry, userId) == registry

\* line 472
CloseRegistry(registry, userId) == MapDelete(registry, userId)

\* lines 470-486: the 'close' event; only a socket that carried a userId
\* has the handler
Close(ws) ==
    /\ ws \in Handles
    /\ conns[ws].readyState # CLOSED
    /\ conns' = [conns EXCEPT ![ws].readyState = CLOSED]
    /\ IF conns[ws].handlers
       THEN /\ userSockets' = CloseRegistry(userSockets, conns[ws].userId)
            /\ rooms' = CloseRooms(rooms, ws)
       ELSE UNCHANGED <<userSockets, rooms>>
    /\ res' = Res("close", 0,
                  IF DOMAIN rooms' # DOMAIN rooms THEN "Room deleted" ELSE "",
                  ws, conns[ws].userId)
    /\ out' = {}
    /\ UNCHANGED <<games, pending, scen>>
    /\ UNCHANGED <<wsTasks, auth>>

\* ------------------------------------------------ handlers that suspend
\* src/back/db.js 121-124 (sendAChallenge): the INSERT; the two ids are
\* INT columns
DbSendAChallenge(table, userId, challengerId) ==
    Append(table, [sender_id |-> DbInt(userId),
                   challenger_id |-> DbInt(challengerId)])

\* src/back/db.js 111-114 (getChallengeWithId): the rows the SELECT finds;
\* the function returns result[0], which is undefined when there is none
DbGetChallengeRows(table, challengeId) ==
    IF challengeId[1] \in {"num", "str"} /\ challengeId[2] \in 1..Len(table)
    THEN <<table[challengeId[2]]>>
    ELSE <<>>

ChallengeInputs == {<<Num(1), Num(2)>>}
ChallengeIdInputs == {Num(c) : c \in 1..(MaxChallenges + 1)} \cup {Undefined}
StartInputs == {<<Str(1), Str(2)>>, <<Num(1), Num(2)>>, <<Str(2), Str(9)>>,
                <<Undefined, Undefined>>}

\* lines 113-124: POST /sendChallenge stores the challenge and answers its id
SendChallenge(userId, challengerId) ==
    /\ Len(challenges) < MaxChallenges
    /\ challenges' = DbSendAChallenge(challenges, userId, challengerId)
    /\ res' = Res("POST /sendChallenge", 200, "", Len(challenges) + 1, userId)
    /\ out' = {}
    /\ UNCHANGED <<games, pending, conns, userSockets, rooms, scen, suspended>>
    /\ UNCHANGED auth

\* a 'message' handler stopped at its `await`: a is challengeId or senderId,
\* b is accepterId
Task(kind, ws, a, b) == [kind |-> kind, ws |-> ws, a |-> a, b |-> b]

\* lines 345-353: declineChallenge up to the lookup; without a challengeId
\* it answers at once
WsDeclineChallenge(ws, challengeId) ==
    /\ Listening(ws)
    /\ IF ~Truthy(challengeId)
       THEN /\ out' = {<<ws, ErrorMsg("challengeId is required to decline a challenge")>>}
            /\ suspended' = suspended
       ELSE /\ Cardinality(suspended) < MaxSuspended
            /\ Task("declineChallenge", ws, challengeId, Undefined) \notin suspended
            /\ suspended' = suspended \cup {Task("declineChallenge", ws, challengeId, Undefined)}
            /\ out' = {}
    /\ res' = Res("declineChallenge", 0, "received", ws, challengeId)
    /\ UNCHANGED <<games, pending, conns, userSockets, rooms, scen, challenges>>
    /\ UNCHANGED auth

\* faulty variant: a decline for an unregistered sender is reported back
DeclineSendsReport(registry, rows, ws, challengeId, userId) ==
    IF rows = <<>>
    THEN {<<ws, ErrorMsg("Failed to decline challenge")>>}
    ELSE IF MapHas(registry, Str(rows[1].sender_id[2]))
         THEN {<<registry[Str(rows[1].sender_id[2])],
                 <<"challengeDeclined", challengeId, userId>>>>}
         ELSE {<<ws, ErrorMsg("Target user is not connected")>>}

\* lines 354-380: after the lookup. `challege` is result[0]; when no row was
\* found it is undefined and `challege.length` throws a TypeError, which the
\* inner catch of line 377 answers. A row has no length property, so the
\* test of line 355 is false for it and the sender is looked up under
\* String(sender_id)
DeclineSends(registry, rows, ws, challengeId, userId) ==
    IF rows = <<>>
    THEN {<<ws, ErrorMsg("Failed to decline challenge")>>}
    ELSE IF MapHas(registry, Str(rows[1].sender_id[2]))
         THEN {<<registry[Str(rows[1].sender_id[2])],
                 <<"challengeDeclined", challengeId, userId>>>>}
         ELSE {}

\* lines 354-381: declineChallenge from the completion of the lookup
WsDeclineResume(t) ==
    /\ t \in suspended
    /\ t.kind = "declineChallenge"
    /\ suspended' = suspended \ {t}
    /\ out' = DeclineSends(userSockets, DbGetChallengeRows(challenges, t.a),
                           t.ws, t.a, conns[t.ws].userId)
    /\ res' = Res("declineChallenge", 0, "resumed", t.ws, t.a)
    /\ UNCHANGED <<games, pending, conns, userSockets, rooms, scen, challenges>>
    /\ UNCHANGED auth

\* the startGame notice of lines 392-396 and 404-408
StartNotice(opponentId, gameId) == <<"startGame", opponentId, Num(gameId)>>

\* faulty variant: the notices go out only when both players are registered
StartGameSendsBothOrNone(registry, senderId, accepterId, gameId) ==
    IF MapHas(registry, senderId) /\ MapHas(registry, accepterId)
    THEN {<<registry[senderId], StartNotice(accepterId, gameId)>>,
          <<registry[accepterId], StartNotice(senderId, gameId)>>}
    ELSE {}

\* lines 388-410: the two notices, each under its own userSockets.has test
StartGameSends(registry, senderId, accepterId, gameId) ==
    (IF MapHas(registry, senderId)
     THEN {<<registry[senderId], StartNotice(accepterId, gameId)>>}
     ELSE {})
    \cup
    (IF MapHas(registry, accepterId)
     THEN {<<registry[accepterId], StartNotice(senderId, gameId)>>}
     ELSE {})

\* pool.execute refuses an undefined bind parameter: createGame rejects
\* without inserting
CreateGameRejects(senderId, accepterId) ==
    senderId = Undefined \/ accepterId = Undefined

\* faulty variant: startGame handled in one piece, the socket taking no
\* other message until the game is stored and the notices are sent
WsStartGameAtOnce(ws, senderId, accepterId) ==
    /\ Listening(ws)
    /\ Len(games) < MaxGames
    /\ IF CreateGameRejects(senderId, accepterId)
       THEN /\ games' = games
            /\ out' = {<<ws, ErrorMsg("Invalid message format")>>}
       ELSE /\ games' = Append(games, CreateGameRow(senderId, accepterId))
            /\ out' = StartGameSends(userSockets, senderId, accepterId, Len(games) + 1)
    /\ res' = Res("startGame", 0, "resumed", ws, senderId)
    /\ UNCHANGED <<pending, conns, userSockets, rooms, scen, wsTasks>>
    /\ UNCHANGED auth

\* lines 383-386: startGame up to `await logic.createGame(...)`
WsStartGame(ws, senderId, accepterId) ==
    /\ Listening(ws)
    /\ Cardinality(suspended) < MaxSuspended
    /\ Len(games) + Cardinality({t \in suspended : t.kind = "startGame"}) < MaxGames
    /\ Task("startGame", ws, senderId, accepterId) \notin suspended
    /\ suspended' = suspended \cup {Task("startGame", ws, senderId, accepterId)}
    /\ out' = {}
    /\ res' = Res("startGame", 0, "received", ws, senderId)
    /\ UNCHANGED <<games, pending, conns, userSockets, rooms, scen, challenges>>
    /\ UNCHANGED auth

\* lines 386-413: startGame from the completion of createGame, whose INSERT
\* is taken at its completion; a rejection lands in the catch of line 464
WsStartGameResume(t) ==
    /\ t \in suspended
    /\ t.kind = "startGame"
    /\ suspended' = suspended \ {t}
    /\ IF CreateGameRejects(t.a, t.b)
       THEN /\ games' = games
            /\ out' = {<<t.ws, ErrorMsg("Invalid message format")>>}
       ELSE /\ games' = Append(games, CreateGameRow(t.a, t.b))
            /\ out' = StartGameSends(userSockets, t.a, t.b, Len(games) + 1)
    /\ res' = Res("startGame", 0, "resumed", t.ws, t.a)
    /\ UNCHANGED <<pending, conns, userSockets, rooms, scen, challenges>>
    /\ UNCHANGED auth

\* the text of a frame that is no tagged message: JSON.parse throws on the
\* first, and destructuring the null that the second parses to throws
MalformedPayloads == {"{action:", "null"}

\* faulty variant: the catch also closes the socket
MalformedConnsClose(cs, ws) == [cs EXCEPT ![ws].readyState = CLOSING]

\* lines 296-298 and 464-467: the catch leaves the socket as it is
MalformedConns(cs, ws) == cs

\* lines 294-298, 464-467: a frame whose decoding throws
WsMalformed(ws, payload) ==
    /\ Listening(ws)
    /\ out' = {<<ws, ErrorMsg("Invalid message format")>>}
    /\ conns' = MalformedConns(conns, ws)
    /\ res' = Res("malformed", 0, payload, ws, Undefined)
    /\ UNCHANGED <<games, pending, userSockets, rooms, scen>>
    /\ UNCHANGED <<wsTasks, auth>>

\* lines 461-462: a decoded frame whose action is none of the cases
WsUnknownAction(ws) ==
    /\ Listening(ws)
    /\ out' = {<<ws, ErrorMsg("Unknown action")>>}
    /\ res' = Res("unknown", 0, "", ws, Undefined)
    /\ UNCHANGED <<games, pending, conns, userSockets, rooms, scen>>
    /\ UNCHANGED <<wsTasks, auth>>

\* ------------------------------------------------------- session token
\* a JavaScript string that is not the decimal form of a number
Text(s) == <<"text", s>>

\* the decimal form of the numbers the model uses
Decimal(n) ==
    CASE n = 0 -> "0" [] n = 1 -> "1" [] n = 2 -> "2" [] n = 3 -> "3"
      [] n = 9 -> "9"

\* String(value): a string is itself, a number is its decimal form, so the
\* number 1 and the string "1" both give "1"
JsString(v) ==
    CASE v[1] = "text" -> v[2]
      [] v[1] \in {"num", "str"} -> Decimal(v[2])
      [] v = Null -> "null"
      [] v = Undefined -> "undefined"

IpInputs == {Text("10.0.0.1"), Text("10.0.0.2")}
TokenUserIds == {Num(1), Str(1), Num(2), Str(2)}
Usernames == {Text("ann"), Text("bob")}

\* the strings that get hashed, in a fixed order
Hashed == <<"1", "2", "10.0.0.1", "10.0.0.2", "ann", "bob">>

Code(s) == CHOOSE i \in 1..Len(Hashed) : Hashed[i] = s

RECURSIVE Pow(_, _)
Pow(b, e) == IF e = 0 THEN 1 ELSE b * Pow(b, e - 1)

\* line 204: sha256(value).digest('hex'), as a digest that is injective on
\* the strings hashed: the DigestLen hex digits of the string's code
hashTokenPart(value) ==
    [i \in 1..DigestLen |-> (Code(value) \div Pow(HEX, DigestLen - i)) % HEX]

Max3(a, b, c) ==
    IF a >= b /\ a >= c THEN a ELSE IF b >= c THEN b ELSE c

\* faulty variant: the weave takes the third character from hash1 again
createWeaveTwo(hash1, hash2, hash3) ==
    [k \in 1..(3 * Max3(Len(hash1), Len(hash2), Len(hash3))) |->
        IF (k - 1) % 3 = 1 THEN hash2[(k - 1) \div 3 + 1]
        ELSE hash1[(k - 1) \div 3 + 1]]

\* lines 244-255: character i of each hash in turn
createWeave(hash1, hash2, hash3) ==
    [k \in 1..(3 * Max3(Len(hash1), Len(hash2), Len(hash3))) |->
        CASE (k - 1) % 3 = 0 -> hash1[(k - 1) \div 3 + 1]
          [] (k - 1) % 3 = 1 -> hash2[(k - 1) \div 3 + 1]
          [] (k - 1) % 3 = 2 -> hash3[(k - 1) \div 3 + 1]]

\* lines 234-241; username is hashed as it is (it is a string)
createSessionToken(ip, userId, username) ==
    createWeave(hashTokenPart(JsString(ip)),
                hashTokenPart(JsString(userId)),
                hashTokenPart(username[2]))

\* one call of createSessionToken, kept with its arguments
Derive(ip, userId, username) ==
    /\ Cardinality(derived) < MaxDerived
    /\ derived' = derived \cup {[ip |-> ip, userId |-> userId, username |-> username,
                                 token |-> createSessionToken(ip, userId, username)]}
    /\ res' = NoRes
    /\ out' = {}
    /\ UNCHANGED <<games, pending, conns, userSockets, rooms, scen, wsTasks, sessions>>

\* ------------------------------------------------------------ sessions
\* the users table as the accounts created left it: row u has user_id = u
UsersTable == <<Text("ann"), Text("bob")>>

\* src/back/db.js 41-44 (getUsernameById): the rows the SELECT finds; MySQL
\* compares the INT column with the number the parameter converts to
DbGetUsernameRows(userId) ==
    IF userId[1] \in {"num", "str"} /\ userId[2] \in 1..Len(UsersTable)
    THEN <<UsersTable[userId[2]]>>
    ELSE <<>>

\* src/back/db.js 90-93 (getStoredSessionToken): the rows with that
\* session_id and user_id whose expr_date is still ahead
DbGetStoredSessionRows(table, sessionId, userId) ==
    IF /\ sessionId \in 1..Len(table)
       /\ userId[1] \in {"num", "str"}
       /\ table[sessionId].user_id = DbInt(userId)
       /\ ~table[sessionId].expired
    THEN <<table[sessionId]>>
    ELSE <<>>

SessionIdInputs == 1..(MaxSessions + 1)
CheckUserIds == TokenUserIds \cup {Num(3)}

\* lines 24-47 with logic.setSession (112-119) and db.addSessionToUser: a
\* login of user u with its password from address ip stores the token
\* derived from (ip, user_id of the row, username), good for three days
Login(ip, u) ==
    /\ Len(sessions) < MaxSessions
    /\ sessions' = Append(sessions,
                          [user_id |-> Num(u),
                           token   |-> createSessionToken(ip, Num(u), UsersTable[u]),
                           expired |-> FALSE])
    /\ res' = Res("login", 200, "", Len(sessions) + 1, Num(u))
    /\ out' = {}
    /\ UNCHANGED <<games, pending, conns, userSockets, rooms, scen, wsTasks, derived>>

\* the clock passes the expr_date of a session
Expire(sessionId) ==
    /\ sessionId \in 1..Len(sessions)
    /\ ~sessions[sessionId].expired
    /\ sessions' = [sessions EXCEPT ![sessionId].expired = TRUE]
    /\ res' = NoRes
    /\ out' = {}
    /\ UNCHANGED <<games, pending, conns, userSockets, rooms, scen, wsTasks, derived>>

\* lines 94-111 with logic.getUsernameById (100-103) and
\* logic.getSessionTokenWithIdUserId (128-131): each of the two returns a
\* property of results[0], so it throws a TypeError when the SELECT found no
\* row, and the catch of line 108 answers 500
CheckSessionAnswer(table, clientIp, userId, sessionId) ==
    IF DbGetUsernameRows(userId) = <<>>
    THEN [status |-> 500, body |-> "An error occured on the server!"]
    ELSE IF DbGetStoredSessionRows(table, sessionId, userId) = <<>>
    THEN [status |-> 500, body |-> "An error occured on the server!"]
    ELSE IF DbGetStoredSessionRows(table, sessionId, userId)[1].token
              # createSessionToken(clientIp, userId, DbGetUsernameRows(userId)[1])
    THEN [status |-> 401, body |-> "Session is not verified!"]
    ELSE [status |-> 200, body |-> DbGetUsernameRows(userId)[1][2]]

\* lines 94-111: POST /checkSession
CheckSession(clientIp, userId, sessionId) ==
    /\ res' = Res("checkSession",
                  CheckSessionAnswer(sessions, clientIp, userId, sessionId).status,
                  CheckSessionAnswer(sessions, clientIp, userId, sessionId).body,
                  sessionId, userId)
    /\ out' = {}
    /\ UNCHANGED <<games, pending, conns, userSockets, rooms, scen, wsTasks, auth>>

\* ------------------------------------------------- gameChat and gameMove
\* lines 417 and 442: the first thing either case evaluates is
\* gameRooms.has(...), and no gameRooms is declared anywhere (the rooms of
\* the games are kept in `rooms`, line 272): a ReferenceError is thrown,
\* whatever the room, and the catch of line 464 answers the sender
GameRoomSends(rs, gameId, ws) == {<<ws, ErrorMsg("Invalid message format")>>}

\* lines 415-435: case "gameChat"
WsGameChat(ws, gameId) ==
    /\ Listening(ws)
    /\ out' = GameRoomSends(rooms, gameId, ws)
    /\ res' = Res("gameChat", 0, gameId, ws, Undefined)
    /\ UNCHANGED <<games, pending, conns, userSockets, rooms, scen>>
    /\ UNCHANGED <<wsTasks, auth>>

\* lines 436-459: case "gameMove"
WsGameMove(ws, gmId) ==
    /\ Listening(ws)
    /\ out' = GameRoomSends(rooms, gmId, ws)
    /\ res' = Res("gameMove", 0, gmId, ws, Undefined)
    /\ UNCHANGED <<games, pending, conns, userSockets, rooms, scen>>
    /\ UNCHANGED <<wsTasks, auth>>

\* ---------------------------------------------------------- specification
\* line 252: rooms.set("lobby", new Set()); the other maps start empty and
\* the game table starts without rows
Init ==
    /\ games = <<>>
    /\ pending = {}
    /\ conns = <<>>
    /\ userSockets = EmptyMap
    /\ rooms = [room \in {"lobby"} |-> {}]
    /\ res = NoRes
    /\ out = {}
    /\ scen = [n |-> 0, ok |-> TRUE, body |-> ""]
    /\ suspended = {}
    /\ challenges = <<>>
    /\ sessions = <<>>
    /\ derived = {}

\* the HTTP game endpoints
NextGame ==
    \/ \E g \in GameIdInputs, p \in PlayerInputs, c \in ColInputs : MoveRequest(g, p, c)
    \/ \E r \in pending : MoveResume(r)
    \/ \E p \in CreateInputs : CreateGame(p[1], p[2])
    \/ \E g \in GameIdInputs, w \in PlayerInputs : EndGame(g, w)

\* the WebSocket server
NextWs ==
    \/ \E u \in UserParams, g \in GameParams : Connect(u, g)
    \/ \E ws \in Handles, room \in RoomNames : WsJoin(ws, room)
    \/ \E ws \in Handles, room \in RoomNames : WsLeave(ws, room)
    \/ \E ws \in Handles, room \in RoomNames : WsMessage(ws, room)
    \/ \E ws \in Handles, t \in TargetInputs : WsSendChallenge(ws, t)
    \/ \E ws \in Handles, payload \in MalformedPayloads : WsMalformed(ws, payload)
    \/ \E ws \in Handles : WsUnknownAction(ws)
    \/ \E ws \in Handles : BeginClose(ws)
    \/ \E ws \in Handles : Close(ws)

\* declineChallenge, with the route that stores challenges; connections
\* join the lobby only
NextDecline ==
    \/ \E u \in UserParams : Connect(u, "")
    \/ \E ws \in Handles : BeginClose(ws)
    \/ \E ws \in Handles : Close(ws)
    \/ \E p \in ChallengeInputs : SendChallenge(p[1], p[2])
    \/ \E ws \in Handles, c \in ChallengeIdInputs : WsDeclineChallenge(ws, c)
    \/ \E t \in suspended : WsDeclineResume(t)

\* startGame, with a frame that does not decode
NextStart ==
    \/ \E u \in UserParams : Connect(u, "")
    \/ \E ws \in Handles : BeginClose(ws)
    \/ \E ws \in Handles : Close(ws)
    \/ \E ws \in Handles, p \in StartInputs : WsStartGame(ws, p[1], p[2])
    \/ \E t \in suspended : WsStartGameResume(t)
    \/ \E ws \in Handles, payload \in MalformedPayloads : WsMalformed(ws, payload)

\* the pushes that look a user up in the registry after a storage call
NextPush ==
    \/ \E u \in UserParams \ {Null} : Connect(u, "")
    \/ \E ws \in Handles : Close(ws)
    \/ \E p \in ChallengeInputs : SendChallenge(p[1], p[2])
    \/ \E ws \in Handles, c \in ChallengeIdInputs \ {Undefined} : WsDeclineChallenge(ws, c)
    \/ \E t \in suspended : WsDeclineResume(t)
    \/ \E ws \in Handles, p \in StartInputs : WsStartGame(ws, p[1], p[2])
    \/ \E t \in suspended : WsStartGameResume(t)

\* the game routes next to players that connect and disconnect
NextNotify ==
    \/ NextGame
    \/ \E u \in UserParams \ {Null} : Connect(u, "")
    \/ \E ws \in Handles : Close(ws)

\* createSessionToken applied to arguments of every kind
NextToken ==
    \E ip \in IpInputs, userId \in TokenUserIds, username \in Usernames :
        Derive(ip, userId, username)

\* logging in and having a session checked
NextSession ==
    \/ \E ip \in IpInputs, u \in UserIds : Login(ip, u)
    \/ \E sessionId \in SessionIdInputs : Expire(sessionId)
    \/ \E ip \in IpInputs, userId \in CheckUserIds, sessionId \in SessionIdInputs :
          CheckSession(ip, userId, sessionId)

\* the relays inside a game room
NextRelay ==
    \/ \E u \in UserParams, g \in GameParams : Connect(u, g)
    \/ \E ws \in Handles : BeginClose(ws)
    \/ \E ws \in Handles : Close(ws)
    \/ \E ws \in Handles, g \in RoomNames : WsGameChat(ws, g)
    \/ \E ws \in Handles, g \in RoomNames : WsGameMove(ws, g)

Next ==
    \/ NextGame \/ NextWs \/ NextDecline \/ NextStart \/ NextToken \/ NextSession
    \/ NextRelay

\* the whole server
Spec == Init /\ [][Next]_vars

\* The game endpoints alone, and the WebSocket server alone.  No action of
\* one group reads or writes a variable of the other (the move handler
\* throws before it reaches userSockets), so each group is explored on its
\* own rather than in the product of the two.
SpecScript == Init /\ [][NextGame]_vars

\* scen is a history of the requests, read by no handler; the game
\* endpoints are also explored with it switched off from the start
InitGame ==
    /\ games = <<>>
    /\ pending = {}
    /\ conns = <<>>
    /\ userSockets = EmptyMap
    /\ rooms = [room \in {"lobby"} |-> {}]
    /\ res = NoRes
    /\ out = {}
    /\ scen = [n |-> 0, ok |-> FALSE, body |-> ""]
    /\ suspended = {}
    /\ challenges = <<>>
    /\ sessions = <<>>
    /\ derived = {}

SpecGame == InitGame /\ [][NextGame]_vars

SpecWs == Init /\ [][NextWs]_vars

\* the handlers that suspend at a storage call, each on its own
SpecDecline == Init /\ [][NextDecline]_vars

SpecStart == Init /\ [][NextStart]_vars

\* both of them, without the frames that answer at once
SpecPush == Init /\ [][NextPush]_vars

\* the game-room relays on their own
SpecRelay == Init /\ [][NextRelay]_vars

\* the session routes on their own
SpecSession == Init /\ [][NextSession]_vars

\* the token function on its own
SpecToken == Init /\ [][NextToken]_vars

\* the game routes next to players that connect and disconnect
SpecNotify == InitGame /\ [][NextNotify]_vars

\* A game table that may already hold one game between user 1 and user 2: the
\* row the move handler would hand to storage after k alternating drops
\* into one column (lines 196-212), starting from the row createGame
\* inserts.  A drop the scan refuses leaves the row as it is.
RECURSIVE StoredAfter(_, _)
StoredAfter(col, k) ==
    IF k = 0 THEN CreateGameRow(Num(1), Num(2))
    ELSE LET g     == StoredAfter(col, k - 1)
             board == JSONparse(g.game_state)
             row   == DropRow(board, col)
         IN IF row = -1 THEN g
            ELSE [g EXCEPT
                    !.game_state = JSONstringify(
                        SetCell(board, row, col, Colour(g, g.current_turn))),
                    !.current_turn = NextTurn(g, g.current_turn)]

StoredCols == {0, 3}

StoredTables ==
    {<<>>} \cup {<<StoredAfter(col, k)>> : col \in StoredCols, k \in 0..MaxStored}

InitStored ==
    /\ games \in StoredTables
    /\ pending = {}
    /\ conns = <<>>
    /\ userSockets = EmptyMap
    /\ rooms = [room \in {"lobby"} |-> {}]
    /\ res = NoRes
    /\ out = {}
    /\ scen = [n |-> 0, ok |-> FALSE, body |-> ""]
    /\ suspended = {}
    /\ challenges = <<>>
    /\ sessions = <<>>
    /\ derived = {}

\* the game endpoints over a table that holds a game in progress
SpecStored == InitStored /\ [][NextGame]_vars


\* Move requests on game 1 that have passed the column check and are
\* suspended at getGameWithId together, over a table that holds the game
RaceRequests ==
    {[gameId |-> 1, playerId |-> p, col |-> c] : p \in {Num(1), Num(2)}, c \in StoredCols}

InitRace ==
    /\ games \in StoredTables \ {<<>>}
    /\ pending \in {rs \in SUBSET RaceRequests : Cardinality(rs) = MaxRacing}
    /\ conns = <<>>
    /\ userSockets = EmptyMap
    /\ rooms = [room \in {"lobby"} |-> {}]
    /\ res = NoRes
    /\ out = {}
    /\ scen = [n |-> 0, ok |-> FALSE, body |-> ""]
    /\ suspended = {}
    /\ challenges = <<>>
    /\ sessions = <<>>
    /\ derived = {}

\* the requests in flight resume in any order
NextRace == \E r \in pending : MoveResume(r)

SpecRace == InitRace /\ [][NextRace]_vars

\* ================================================================ claims
Req(gameId, playerId, col) == [gameId |-> gameId, playerId |-> playerId, col |-> col]

\* this step answers the move request (gameId, playerId, col)
MoveAnswered(gameId, playerId, col) ==
    \/ InvalidColumn(col) /\ MoveRequest(gameId, playerId, col)
    \/ Req(gameId, playerId, col) \in pending /\ MoveResume(Req(gameId, playerId, col))

BoardOf(gameId) == JSONparse(games[gameId].game_state)

ColumnFull(board, col) ==
    \A row \in 0..(ROWS - 1) : Cell(board, row, col) # "null"

\* the request is one the rules accept: the game exists, the player is the
\* one to move, the column is on the board and has an empty cell
LegalMove(gameId, playerId, col) ==
    /\ HasGame(gameId)
    /\ games[gameId].current_turn = playerId
    /\ col \in 0..(COLS - 1)
    /\ ~ColumnFull(BoardOf(gameId), col)

\* C1 (as stated): every move request on an existing game without a winner
\* by a playerId other than current_turn is answered "Not your turn" and
\* leaves the game table unchanged.
C1_AlwaysNotYourTurn ==
    [][\A g \in {res'.id}, p \in {res'.arg}, c \in ColInputs :
          ( /\ res'.op = "move"
            /\ MoveAnswered(g, p, c)
            /\ HasGame(g)
            /\ games[g].winner_id = Null
            /\ games[g].current_turn # p )
          => (res'.body = "Not your turn" /\ games' = games)]_vars

\* C1 (amended): such a request is answered "Not your turn" when its column
\* passes the range check 0 <= col < 7 and "Invalid column" when it does
\* not; in both cases with status 400 and the game table unchanged.
C1_NotYourTurn ==
    [][\A g \in {res'.id}, p \in {res'.arg}, c \in ColInputs :
          ( /\ res'.op = "move"
            /\ MoveAnswered(g, p, c)
            /\ HasGame(g)
            /\ games[g].winner_id = Null
            /\ games[g].current_turn # p )
          => /\ res'.status = 400
             /\ res'.body = (IF c \in 0..(COLS - 1) THEN "Not your turn"
                             ELSE "Invalid column")
             /\ games' = games]_vars

C1_Witness ==
    /\ res.op = "move"
    /\ res.body = "Not your turn"
    /\ HasGame(res.id)
    /\ games[res.id].winner_id = Null
    /\ games[res.id].current_turn # res.arg

C3_ColumnFull ==
    [][\A g \in {res'.id}, p \in {res'.arg}, c \in ColInputs :
          ( /\ res'.op = "move"
            /\ MoveAnswered(g, p, c)
            /\ HasGame(g)
            /\ games[g].current_turn = p
            /\ c \in 0..(COLS - 1)
            /\ ColumnFull(BoardOf(g), c) )
          => /\ res'.status = 400
             /\ res'.body = "Column is full"
             /\ games' = games]_vars

C3_Witness ==
    /\ res.op = "move"
    /\ res.body = "Column is full"
    /\ HasGame(res.id)
    /\ games[res.id].current_turn = res.arg
    /\ \E c \in 0..(COLS - 1) : ColumnFull(BoardOf(res.id), c)

\* C4: a move the rules accept leaves the persisted board equal to the old
\* board with exactly one more mark: the mover's colour in the lowest empty
\* cell of the column (row 5 of an empty column, row 4 on the next drop).
C4_GravityDrop ==
    [][\A g \in {res'.id}, p \in {res'.arg}, c \in ColInputs :
          (res'.op = "move" /\ MoveAnswered(g, p, c) /\ LegalMove(g, p, c))
          => \E row \in 0..(ROWS - 1) :
               /\ Cell(BoardOf(g), row, c) = "null"
               /\ \A below \in (row + 1)..(ROWS - 1) : Cell(BoardOf(g), below, c) # "null"
               /\ JSONparse(games'[g].game_state)
                    = SetCell(BoardOf(g), row, c, Colour(games[g], p))]_vars

\* C5: createGame(userId, opponentId) adds one row whose board is 6 rows of
\* 7 empty cells, whose current_turn is userId and whose players are
\* (userId, opponentId), and answers with the id of that row.
C5_CreateGame ==
    [][\A p \in CreateInputs :
          CreateGame(p[1], p[2])
          => LET id == res'.id IN
             /\ res'.status = 200
             /\ Len(games') = Len(games) + 1
             /\ id = Len(games')
             /\ \A g \in 1..Len(games) : games'[g] = games[g]
             /\ Len(JSONparse(games'[id].game_state)) = 6
             /\ \A r \in 1..6 :
                  /\ Len(JSONparse(games'[id].game_state)[r]) = 7
                  /\ \A c \in 1..7 : JSONparse(games'[id].game_state)[r][c] = "null"
             /\ games'[id].current_turn[2] = p[1][2]
             /\ games'[id].player1_id[2] = p[1][2]
             /\ games'[id].player2_id[2] = p[2][2] ]_vars

C5_Witness ==
    /\ res.op = "create"
    /\ res.status = 200
    /\ HasGame(res.id)
    /\ BoardOf(res.id) = [r \in 1..6 |-> [c \in 1..7 |-> "null"]]
    /\ games[res.id].current_turn = DbInt(res.arg)

\* C6: in a game created by user 1 against user 2, once the two opening
\* drops in column 3 and six drops of user 1 in column 0 have been asked
\* for in that order, the last of them was answered "Column is full".
C6_SixthDropColumnFull ==
    (scen.ok /\ scen.n = Len(Script)) => scen.body = "Column is full"

\* C7: when the only member of room R leaves it, R is gone from the room
\* table afterwards unless R is "lobby", which stays.
C7_LeaveDeletesEmptyRoom ==
    [][\A ws \in Handles, room \in RoomNames :
          ( /\ WsLeave(ws, room)
            /\ MapHas(rooms, room)
            /\ rooms[room] = {ws} )
          => IF room = "lobby" THEN MapHas(rooms', room)
             ELSE ~MapHas(rooms', room)]_vars

\* C8: the room table always holds "lobby".
C8_LobbyAlwaysPresent == MapHas(rooms, "lobby")

\* the last member of the lobby has closed and the lobby is still there
C8_Witness ==
    /\ res.op = "close"
    /\ conns[res.id].handlers
    /\ \E ws \in Handles : ws # res.id /\ conns[ws].readyState = CLOSED
    /\ MapHas(rooms, "lobby")
    /\ rooms["lobby"] = {}

\* C9: the close step of a connection removes its userId from the registry,
\* removes the connection from every room, and deletes every room other
\* than "lobby" that this empties; afterwards it is a member of no room.
C9_CloseCleansUp ==
    [][\A ws \in Handles :
          (Close(ws) /\ conns[ws].handlers)
          => /\ ~MapHas(userSockets', conns[ws].userId)
             /\ \A room \in DOMAIN rooms' : ws \notin rooms'[room]
             /\ \A room \in DOMAIN rooms :
                  IF ws \in rooms[room] /\ rooms[room] = {ws} /\ room # "lobby"
                  THEN ~MapHas(rooms', room)
                  ELSE MapHas(rooms', room) /\ rooms'[room] = rooms[room] \ {ws}
             /\ DOMAIN rooms' \subseteq DOMAIN rooms]_vars

\* a close that removed the connection's registration and deleted a room
C9_Witness ==
    /\ res.op = "close"
    /\ conns[res.id].handlers
    /\ res.body = "Room deleted"
    /\ ~MapHas(userSockets, res.arg)
    /\ \A room \in DOMAIN rooms : res.id \notin rooms[room]
    /\ \E ws \in Handles : conns[ws].readyState = OPEN

\* no connection is registered for the user id that value names
Unregistered(registry, targetUserId) ==
    \A k \in DOMAIN registry : k[2] # targetUserId[2]

\* C10: sendChallenge naming a user that has no registered connection sends
\* the error "Target user is not connected" to the sender and nothing to
\* any other connection.
C10_ChallengeOffline ==
    [][\A ws \in Handles, t \in TargetInputs :
          ( /\ WsSendChallenge(ws, t)
            /\ Truthy(t)
            /\ Unregistered(userSockets, t) )
          => out' = {<<ws, ErrorMsg("Target user is not connected")>>}]_vars

C10_Witness ==
    /\ res.op = "sendChallenge"
    /\ Truthy(res.arg)
    /\ Unregistered(userSockets, res.arg)
    /\ out = {<<res.id, ErrorMsg("Target user is not connected")>>}
    /\ \E ws \in Handles : ws # res.id /\ conns[ws].readyState = OPEN

\* the storage holds no challenge under the id of the suspended decline
UnknownChallenge(t) ==
    t.kind = "declineChallenge" /\ DbGetChallengeRows(challenges, t.a) = <<>>

\* C11: a declineChallenge whose challengeId names no stored challenge
\* sends the decliner the error "Challenge with ID ... not found" and sends
\* nothing to any other connection.
C11_DeclineUnknownNotFound ==
    [][\A t \in suspended :
          (WsDeclineResume(t) /\ UnknownChallenge(t))
          => out' = {<<t.ws, ErrorMsg("Challenge with ID not found")>>}]_vars

\* the sender of the stored challenge that the suspended decline names has
\* no entry in the registry
DeclineSenderAbsent(t) ==
    /\ t.kind = "declineChallenge"
    /\ DbGetChallengeRows(challenges, t.a) # <<>>
    /\ ~MapHas(userSockets, Str(DbGetChallengeRows(challenges, t.a)[1].sender_id[2]))

\* the notices of a startGame for the participants the registry holds
NoticesToRegistered(t, gameId) ==
    {<<userSockets[t.a], StartNotice(t.b, gameId)>> : x \in {t.a} \cap DOMAIN userSockets}
    \cup {<<userSockets[t.b], StartNotice(t.a, gameId)>> : x \in {t.b} \cap DOMAIN userSockets}

\* C12: a push to a userId that the registry does not hold is a no-op. A
\* decline whose challenge sender is not registered sends nothing at all; a
\* startGame sends its notices to the registered participants and nothing
\* else, no error among them; both leave the registry, the room table and
\* the sockets as they were and run to their end.
C12_PushToUnregisteredNoOp ==
    [][\A t \in suspended :
          /\ (WsDeclineResume(t) /\ DeclineSenderAbsent(t)) => out' = {}
          /\ (WsStartGameResume(t) /\ ~CreateGameRejects(t.a, t.b))
                => out' = NoticesToRegistered(t, Len(games) + 1)
          /\ (WsDeclineResume(t) \/ WsStartGameResume(t))
                => /\ userSockets' = userSockets
                   /\ rooms' = rooms
                   /\ conns' = conns
                   /\ suspended' = suspended \ {t}]_vars

\* a startGame has completed whose sender is not registered and whose
\* accepter is: the one notice, naming the sender as opponent, went out
C12_Witness ==
    /\ res.op = "startGame"
    /\ res.body = "resumed"
    /\ ~MapHas(userSockets, res.arg)
    /\ Len(games) > 0
    /\ \E ws \in Handles : out = {<<ws, StartNotice(res.arg, Len(games))>>}

\* C13: a frame whose decoding throws is answered "Invalid message format"
\* on the socket it came from and on no other; that socket stays open, and
\* the registry and the room table are left as they were.
C13_MalformedAnswered ==
    [][\A ws \in Handles, payload \in MalformedPayloads :
          WsMalformed(ws, payload)
          => /\ out' = {<<ws, ErrorMsg("Invalid message format")>>}
             /\ conns'[ws].readyState = OPEN
             /\ conns' = conns
             /\ userSockets' = userSockets
             /\ rooms' = rooms]_vars

\* such a frame has just been answered while another open socket shares a
\* room with its sender
C13_Witness ==
    /\ res.op = "malformed"
    /\ out = {<<res.id, ErrorMsg("Invalid message format")>>}
    /\ conns[res.id].readyState = OPEN
    /\ \E ws \in Handles, room \in DOMAIN rooms :
          /\ ws # res.id
          /\ conns[ws].readyState = OPEN
          /\ {ws, res.id} \subseteq rooms[room]

\* C14: a message for a room of the room table is sent to exactly the
\* members of that room whose socket is open, so to no member that is not
\* open and to no socket outside the room; for a room the table does not
\* hold, the one thing sent is the error to the requesting socket.
C14_BroadcastOpenMembers ==
    [][\A ws \in Handles, room \in RoomNames :
          WsMessage(ws, room)
          => IF MapHas(rooms, room)
             THEN /\ \A m \in out' : m[2] = <<"message", room>>
                  /\ \A h \in Handles :
                        (\E m \in out' : m[1] = h)
                        <=> (h \in rooms[room] /\ conns[h].readyState = OPEN)
             ELSE out' = {<<ws, ErrorMsg("Room does not exist")>>}]_vars

\* a broadcast has just gone to the open member of a room that also has a
\* member whose socket is no longer open
C14_Witness ==
    \E room \in DOMAIN rooms :
       /\ out # {}
       /\ \A m \in out : m[2] = <<"message", room>> /\ m[1] \in rooms[room]
       /\ \E h \in rooms[room] :
             conns[h].readyState # OPEN /\ \A m \in out : m[1] # h

\* C15: a startGame for (senderId, accepterId) adds one game, created by
\* senderId against accepterId, and then sends a startGame notice with the
\* id of that game to each of the two that the registry holds when the
\* creation has completed: the sender is told its opponent is the accepter
\* and the accepter that it is the sender. A participant the registry does
\* not hold takes nothing from the other's notice nor from the stored game.
C15_StartGame ==
    [][\A t \in suspended :
          (WsStartGameResume(t) /\ ~CreateGameRejects(t.a, t.b))
          => LET id == Len(games) + 1 IN
             /\ Len(games') = id
             /\ \A g \in 1..Len(games) : games'[g] = games[g]
             /\ games'[id].player1_id[2] = t.a[2]
             /\ games'[id].player2_id[2] = t.b[2]
             /\ games'[id].current_turn[2] = t.a[2]
             /\ MapHas(userSockets, t.a)
                  => <<userSockets[t.a], StartNotice(t.b, id)>> \in out'
             /\ MapHas(userSockets, t.b)
                  => <<userSockets[t.b], StartNotice(t.a, id)>> \in out'
             /\ \A m \in out' : /\ m[2][1] = "startGame"
                                /\ m[2][3] = Num(id)
                                /\ \E k \in {t.a, t.b} :
                                      MapHas(userSockets, k) /\ m[1] = userSockets[k]]_vars

\* a startGame has completed with both participants registered on two
\* sockets: the game is stored and each socket was sent its notice
C15_Witness ==
    /\ res.op = "startGame"
    /\ res.body = "resumed"
    /\ HasGame(Len(games))
    /\ games[Len(games)].player1_id = DbInt(res.arg)
    /\ MapHas(userSockets, res.arg)
    /\ \E k \in DOMAIN userSockets :
          /\ k # res.arg
          /\ userSockets[k] # userSockets[res.arg]
          /\ out = {<<userSockets[res.arg], StartNotice(k, Len(games))>>,
                    <<userSockets[k], StartNotice(res.arg, Len(games))>>}

\* C16: a move the rules accept is answered with success, and a gameMove
\* notification is sent to the socket of each of the game's two players
\* that has one registered.
C16_MoveNotifiesPlayers ==
    [][\A g \in {res'.id}, p \in {res'.arg}, c \in ColInputs :
          (res'.op = "move" /\ MoveAnswered(g, p, c) /\ LegalMove(g, p, c))
          => /\ res'.status = 200
             /\ \A k \in DOMAIN userSockets :
                   k[2] \in {games[g].player1_id[2], games[g].player2_id[2]}
                   => \E m \in out' : m[1] = userSockets[k] /\ m[2][1] = "gameMove"]_vars

\* the arguments of a derivation as given, and as the strings that are hashed
GivenTo(x) == <<x.ip, x.userId, x.username>>
HashedOf(x) == <<JsString(x.ip), JsString(x.userId), x.username[2]>>

\* in how many of the three places two triples differ
Differing(a, b) == Cardinality({i \in 1..3 : a[i] # b[i]})

\* C17 (as stated): two derivations from the same (ip, userId, username)
\* give the same token, and two derivations whose arguments differ in
\* exactly one of the three give different tokens.
C17_OneInputChangesToken ==
    \A x, y \in derived :
       /\ GivenTo(x) = GivenTo(y) => x.token = y.token
       /\ Differing(GivenTo(x), GivenTo(y)) = 1 => x.token # y.token

\* C17: two derivations whose arguments have the same string forms
\* (String(ip), String(userId), username) give the same token, and two
\* whose string forms differ in exactly one of the three give different
\* tokens.
C17_OneStringChangesToken ==
    \A x, y \in derived :
       /\ HashedOf(x) = HashedOf(y) => x.token = y.token
       /\ Differing(HashedOf(x), HashedOf(y)) = 1 => x.token # y.token

\* two derivations are at hand that differ in one string and in the token
C17_Witness ==
    \E x, y \in derived :
       /\ Differing(HashedOf(x), HashedOf(y)) = 1
       /\ x.token # y.token
       /\ Len(x.token) = 3 * DigestLen

\* an unexpired stored token exists for (sessionId, userId)
StoredToken(sessionId, userId) ==
    DbGetStoredSessionRows(sessions, sessionId, userId) # <<>>

\* it exists and equals the token recomputed for the request
TokenMatches(clientIp, userId, sessionId) ==
    /\ StoredToken(sessionId, userId)
    /\ DbGetUsernameRows(userId) # <<>>
    /\ DbGetStoredSessionRows(sessions, sessionId, userId)[1].token
         = createSessionToken(clientIp, userId, DbGetUsernameRows(userId)[1])

\* C18: POST /checkSession answers 200 only when an unexpired stored token
\* exists for (sessionId, userId) and equals the recomputed token, and it
\* answers 401 both when the stored token is missing or expired and when
\* it differs from the recomputed one.
C18_CheckSession401 ==
    [][\A ip \in IpInputs, userId \in CheckUserIds, sessionId \in SessionIdInputs :
          CheckSession(ip, userId, sessionId)
          => /\ res'.status = 200 => TokenMatches(ip, userId, sessionId)
             /\ ~TokenMatches(ip, userId, sessionId) => res'.status = 401]_vars

\* what res.op is after the handling of a message
MessageOps == {"sendChallenge", "malformed", "unknown", "declineChallenge", "startGame"}

\* C19: a connection that carried no userId is not open, has no handlers,
\* is the socket of no registry entry, is in no room, is sent nothing, and
\* no message of it is being or has just been handled.
C19_NoUserIdRejected ==
    \A ws \in Handles :
       ~Truthy(conns[ws].userId)
       => /\ conns[ws].readyState \in {CLOSING, CLOSED}
          /\ ~conns[ws].handlers
          /\ \A k \in DOMAIN userSockets : userSockets[k] # ws
          /\ \A room \in DOMAIN rooms : ws \notin rooms[room]
          /\ \A m \in out : m[1] # ws
          /\ \A t \in suspended : t.ws # ws
          /\ ~(res.op \in MessageOps /\ res.id = ws)

\* a connection without userId was made, and after it one with a userId
\* that is registered and in a room
C19_Witness ==
    \E ws, other \in Handles :
       /\ ~Truthy(conns[ws].userId)
       /\ ws < other
       /\ Listening(other)
       /\ \E room \in DOMAIN rooms : other \in rooms[room]
       /\ \E k \in DOMAIN userSockets : userSockets[k] = other

\* C20 (as stated): no message of a connection is handled while the
\* handler of an earlier message of that connection has not completed.
C20_OneAtATime ==
    \A t \in suspended : ~(res.op = "malformed" /\ res.id = t.ws)

\* C20: a handler runs in one piece up to its storage call and in one piece
\* from the completion of that call. A startGame does nothing but suspend
\* when it arrives; the game and the notices come in the one step of its
\* resumption; a message that arrives on the same or another connection in
\* between is handled at once and leaves the suspended handler suspended.
C20_SuspendsAtStorageCall ==
    [][/\ \A ws \in Handles, p \in StartInputs :
             WsStartGame(ws, p[1], p[2])
             => /\ suspended' = suspended \cup {Task("startGame", ws, p[1], p[2])}
                /\ games' = games
                /\ out' = {}
       /\ \A ws \in Handles, payload \in MalformedPayloads :
             WsMalformed(ws, payload)
             => /\ suspended' = suspended
                /\ games' = games
                /\ out' = {<<ws, ErrorMsg("Invalid message format")>>}
       /\ \A t \in suspended :
             WsStartGameResume(t) => suspended' = suspended \ {t}
       /\ games' # games => \E t \in suspended : WsStartGameResume(t)]_vars

\* a frame of a connection has just been answered while the startGame that
\* the same connection sent before it is still waiting for its game
C20_Witness ==
    \E t \in suspended :
       /\ t.kind = "startGame"
       /\ res.op = "malformed"
       /\ res.id = t.ws
       /\ out = {<<t.ws, ErrorMsg("Invalid message format")>>}
       /\ games = <<>>

\* C21: when a connection opens with a userId that has a registered
\* connection, the registry afterwards maps the userId to the new
\* connection and to no other, the connection registered before stays as
\* it was (not closed) and nothing is sent to it, and no two registry
\* entries are for the same user.
C21_LastWriterWins ==
    [][\A u \in UserParams, g \in GameParams :
          (Connect(u, g) /\ Truthy(u) /\ MapHas(userSockets, u))
          => /\ userSockets'[u] = Len(conns) + 1
             /\ DOMAIN userSockets' = DOMAIN userSockets
             /\ \A k \in DOMAIN userSockets \ {u} : userSockets'[k] = userSockets[k]
             /\ conns'[userSockets[u]] = conns[userSockets[u]]
             /\ out' = {}
             /\ \A k1, k2 \in DOMAIN userSockets' : k1[2] = k2[2] => k1 = k2]_vars

\* two open connections of one user, the registry naming the later one
C21_Witness ==
    \E first, second \in Handles :
       /\ first < second
       /\ conns[first].userId = conns[second].userId
       /\ conns[first].readyState = OPEN
       /\ conns[second].readyState = OPEN
       /\ MapHas(userSockets, conns[second].userId)
       /\ userSockets[conns[second].userId] = second

\* the tags of the messages addressed to one user through the registry
PushTags == {"challenge", "challengeDeclined", "startGame", "gameMove"}

\* C22: no targeted push is handed to a socket that is not open.
C22_PushOnlyToOpen ==
    \A m \in out : m[2][1] \in PushTags => conns[m[1]].readyState = OPEN

\* what a relay tagged `tag` for room `room` hands to the open members
RelayToOpen(tag, room) ==
    {<<h, <<tag, room>> >> : h \in {m \in rooms[room] : conns[m].readyState = OPEN}}

\* C23: a gameChat, and a gameMove, naming a game room that exists and has
\* members is relayed to every open member of that room; a gameChat naming
\* a room that does not exist gives the sender "Game room does not exist"
\* and relays nothing.
C23_GameRoomRelay ==
    [][\A ws \in Handles, g \in RoomNames :
          /\ WsGameChat(ws, g)
             => IF MapHas(rooms, g)
                THEN rooms[g] # {} => out' = RelayToOpen("gameChat", g)
                ELSE out' = {<<ws, ErrorMsg("Game room does not exist")>>}
          /\ (WsGameMove(ws, g) /\ MapHas(rooms, g) /\ rooms[g] # {})
             => out' = RelayToOpen("gameMove", g)]_vars

\* ws is the connection opened last among those that carried its userId
NewestOf(ws) ==
    \A later \in Handles : later > ws => conns[later].userId # conns[ws].userId

\* C24: whenever the connection a user opened last is still open, the
\* registry maps the user to it.
C24_NewestStaysRegistered ==
    \A ws \in Handles :
       (Truthy(conns[ws].userId) /\ conns[ws].readyState = OPEN /\ NewestOf(ws))
       => /\ MapHas(userSockets, conns[ws].userId)
          /\ userSockets[conns[ws].userId] = ws

\* no occupied cell of the board has an empty cell below it in its column
NoFloatingMark(board) ==
    \A c \in 0..(COLS - 1), r \in 0..(ROWS - 1) :
       Cell(board, r, c) # "null"
       => \A below \in (r + 1)..(ROWS - 1) : Cell(board, below, c) # "null"

\* C26: no persisted board has a floating mark.
C26_NoFloatingMark ==
    \A g \in 1..Len(games) : NoFloatingMark(BoardOf(g))

\* a move request has been answered on a game whose board has a column
\* with marks in its two lowest cells and none above them
C26_Witness ==
    /\ res.op = "move"
    /\ HasGame(res.id)
    /\ \E c \in 0..(COLS - 1) :
          /\ Cell(BoardOf(res.id), ROWS - 1, c) # "null"
          /\ Cell(BoardOf(res.id), ROWS - 2, c) # "null"
          /\ Cell(BoardOf(res.id), ROWS - 3, c) = "null"

\* how many cells of the board hold the colour
Marks(board, colour) ==
    Cardinality({rc \in (0..(ROWS - 1)) \X (0..(COLS - 1)) :
                    Cell(board, rc[1], rc[2]) = colour})

\* C27: on every persisted board player1 has as many marks as player2 or
\* one more, and current_turn is player1 exactly when they have as many.
C27_MarksAndTurn ==
    \A g \in 1..Len(games) :
       LET ahead == Marks(BoardOf(g), Colour(games[g], games[g].player1_id))
                    - Marks(BoardOf(g), Colour(games[g], games[g].player2_id))
       IN /\ ahead \in {0, 1}
          /\ (games[g].current_turn = games[g].player1_id) <=> (ahead = 0)

\* a move request has been answered on a game in which player1 has two
\* marks, player2 one, and the turn is player2's
C27_Witness ==
    /\ res.op = "move"
    /\ HasGame(res.id)
    /\ Marks(BoardOf(res.id), "red") = 2
    /\ Marks(BoardOf(res.id), "yellow") = 1
    /\ games[res.id].current_turn = games[res.id].player2_id

C28_ChallengeNamesSender ==
    [][\A ws \in Handles, t \in TargetInputs :
          WsSendChallenge(ws, t)
          => \A m \in out' :
                m[2][1] = "challenge"
                => /\ m[2] = <<"challenge", conns[ws].userId>>
                   /\ conns'[ws].userId = conns[ws].userId]_vars

\* a challenge has just been pushed to the socket of another user, naming
\* the user of the socket that asked for it
C28_Witness ==
    /\ res.op = "sendChallenge"
    /\ \E h \in Handles :
          /\ h # res.id
          /\ conns[h].userId # conns[res.id].userId
          /\ out = {<<h, <<"challenge", conns[res.id].userId>> >>}

====
